---- MODULE Spec2Model ----
(***************************************************************************)
(* Model of riscv/processor.cc: one processor_t object (a main core or a   *)
(* vector lane), the mmu_t it shares, and the activation of step().        *)
(*                                                                         *)
(*   Spec       deliver_ipi and step on one processor, statement by        *)
(*              statement of step;                                         *)
(*   SpecPair   the same processor driven by step(n, true) and by          *)
(*              step(n, false);                                            *)
(*   SpecVec    reset, vcfg, setvl and the writes of the vector            *)
(*              parameters, on a processor with the lanes it created;      *)
(*   SpecLanes  a main core and its lanes, driven in turn on one mmu;      *)
(*   SpecLive   the step calls of one processor, under fairness.           *)
(*                                                                         *)
(* A uint32_t bit field (sr, interrupts_pending, the word written to SR)   *)
(* is represented by the set of the positions of its 1 bits: a & b is      *)
(* intersection, a | b is union, a & ~b is set difference, a >> k moves    *)
(* every position down by k and drops those that fall below 0.             *)
(***************************************************************************)
EXTENDS Integers, Naturals, Sequences, FiniteSets, TLC

VARIABLES
  build,    \* the compile-time configuration (RISCV_ENABLE_* macros)
  self,     \* which object this is: -1 the main core, else the index given to the lane constructor
  proc,     \* the fields of the processor_t object
  mmu,      \* the fields of the shared mmu_t the processor writes and reads
  frame,    \* the activation of step(): position, arguments and locals
  last,     \* history: the most recent operation or event of the processor
  boot,     \* history: progress of the sequence reset, deliver_ipi, step(1, false)
  poweron,  \* history: the processor and mmu as construction left them
  timer,    \* history: timer assertions since compare was last written
  twin,     \* the same processor driven with the other value of noisy (SpecPair)
  peers     \* SpecLanes: the other processors on the same mmu that are followed,
            \* by the index given to their constructor (-1: the main core)

vars == <<build, self, proc, mmu, frame, last, boot, poweron, timer, twin, peers>>

(***************************************************************************)
(* Bounds of the model.                                                    *)
(***************************************************************************)
WordBits == 18      \* bit positions 0 .. WordBits-1 of a 32-bit word are modelled
MaxN == 4           \* largest instruction budget passed to step
MaxCycle == 6       \* step is not called once cycle would pass this value
CountBits == 2      \* count and compare are kept modulo 2^CountBits (uint32_t in the code)
MaxLanes == 2       \* number of lanes of a main core that are followed one by one
NXPR == 1           \* integer registers modelled
NFPR == 1           \* floating-point registers modelled
MaxLanesCycle == 4  \* SpecLanes: step is not called once the cycles of all processors would pass this value

(***************************************************************************)
(* Constants of the program.                                               *)
(***************************************************************************)
SR_ET == {0}
SR_EF == {1}
SR_EV == {2}
SR_EC == {3}
SR_PS == {4}
SR_S  == {5}
SR_UX == {6}
SR_SX == {7}
SR_IM_SHIFT == 8
SR_IM == SR_IM_SHIFT .. (SR_IM_SHIFT + 7)
SR_VM == {16}
AllBits == 0 .. (WordBits - 1)
SR_ZERO == AllBits \ (SR_ET \cup SR_EF \cup SR_EV \cup SR_EC \cup SR_PS \cup SR_S
                      \cup SR_UX \cup SR_SX \cup SR_IM \cup SR_VM)
FSR_ZERO == AllBits \ (0 .. 7)
IPI_IRQ == 5
TIMER_IRQ == 7
trap_irq0 == 16
BOOT_EVEC == 8192
MAX_UTS == 2048
CountModulus == 2 ^ CountBits

NoTrap == -1
ExcCodes == {2}                          \* codes of exceptions the decoder/mmu raise
IrqCodes == {trap_irq0 + l : l \in 0 .. 7}
Targets == {4}                           \* next-pc values a handler returns
FaultAddrs == {12}                       \* fault addresses the mmu reports
CompareVals == {2}                       \* values a handler writes to compare
IrqLines == {0}                          \* lines an uninitialised interrupts_pending may hold
\* words a handler writes to SR: all ones; user mode with traps enabled and only
\* the timer line unmasked; zero
SrWords == { AllBits,
             SR_ET \cup SR_UX \cup {SR_IM_SHIFT + TIMER_IRQ},
             {} }
\* builds: every RISCV_ENABLE_* macro defined, or none of them
Builds == { [rv64 |-> a, fpu |-> a, rvc |-> a, vec |-> a] : a \in BOOLEAN }
\* -1: the main core; MaxLanes - 1: the index given to a lane constructor
Selves == {-1, MaxLanes - 1}
Budgets == {0, 1, MaxN}                  \* instruction budgets passed to step

\* vector configuration: values an instruction handler writes to nxpr_use and
\* nfpr_use, bank masks it writes to vecbanks, and lengths it passes to setvl
RegDemands == {0, 1, 32}
BankMasks == {0, 15, 255}
VlRequests == {-1, 32, MAX_UTS + 1}

ShiftRight(w, k) == {b - k : b \in {x \in w : x >= k}}
ShiftLeft(w, k) == {b + k : b \in w} \cap AllBits
Min(a, b) == IF a <= b THEN a ELSE b

\* F applied to the value of x, which is computed once
Let(x, F(_)) == CHOOSE v \in {F(r) : r \in {x}} : TRUE

(***************************************************************************)
(* processor_t::set_sr                                                     *)
(***************************************************************************)
\* sr_masked without the RISCV_ENABLE_VEC conditional
sr_masked_keeps_ev(val) ==
  LET s0 == val \ SR_ZERO
      s1 == IF build.rv64 THEN s0 ELSE s0 \ (SR_SX \cup SR_UX)
      s2 == IF build.fpu THEN s1 ELSE s1 \ SR_EF
      s3 == IF build.rvc THEN s2 ELSE s2 \ SR_EC
  IN  s3

sr_masked(val) ==
  LET s0 == val \ SR_ZERO
      s1 == IF build.rv64 THEN s0 ELSE s0 \ (SR_SX \cup SR_UX)
      s2 == IF build.fpu THEN s1 ELSE s1 \ SR_EF
      s3 == IF build.rvc THEN s2 ELSE s2 \ SR_EC
      s4 == IF build.vec THEN s3 ELSE s3 \ SR_EV
  IN  s4

xprlen_of(sr) ==
  IF (IF sr \cap SR_S # {} THEN sr \cap SR_SX ELSE sr \cap SR_UX) # {} THEN 64 ELSE 32

set_sr(p, m, val) ==
  Let(sr_masked(val), LAMBDA sr :
      [p |-> [p EXCEPT !.sr = sr, !.xprlen = xprlen_of(sr)],
       m |-> [m EXCEPT !.vm_enabled = (sr \cap SR_VM # {}),
                       !.supervisor = (sr \cap SR_S # {}),
                       !.tlb = FALSE]])

(***************************************************************************)
(* processor_t::set_fsr                                                    *)
(***************************************************************************)
set_fsr(p, val) == [p EXCEPT !.fsr = val \ FSR_ZERO]

(***************************************************************************)
(* processor_t::vcfg and processor_t::setvl.  The operands are never       *)
(* negative where the code divides, so C's truncating / is \div.           *)
(***************************************************************************)
\* vcfg that divides the bank by the demand itself instead of the demand less one
vcfg_divides_by_demand(p) ==
  Let(IF p.nxpr_use + p.nfpr_use < 2
        THEN p.nxfpr_bank * p.vecbanks_count
        ELSE (p.nxfpr_bank \div (p.nxpr_use + p.nfpr_use)) * p.vecbanks_count, LAMBDA v :
      [p EXCEPT !.vlmax = Min(v, MAX_UTS)])

vcfg(p) ==
  Let(IF p.nxpr_use + p.nfpr_use < 2
        THEN p.nxfpr_bank * p.vecbanks_count
        ELSE (p.nxfpr_bank \div (p.nxpr_use + p.nfpr_use - 1)) * p.vecbanks_count, LAMBDA v :
      [p EXCEPT !.vlmax = Min(v, MAX_UTS)])

setvl(p, vlapp) == [p EXCEPT !.vl = Min(p.vlmax, vlapp)]

(***************************************************************************)
(* processor_t::reset.  interrupts_pending, uts and id are not assigned.   *)
(***************************************************************************)
\* reset without its set_sr: SR and the mmu stay as they were
reset_keeps_sr(p, m) ==
  [p |-> [set_fsr([p EXCEPT !.run = FALSE, !.evec = BOOT_EVEC,
                            !.XPR = [x \in 0 .. (NXPR - 1) |-> 0],
                            !.FPR = [x \in 0 .. (NFPR - 1) |-> 0],
                            !.pc = 0, !.epc = 0, !.badvaddr = 0, !.cause = 0,
                            !.pcr_k0 = 0, !.pcr_k1 = 0,
                            !.count = 0, !.compare = 0, !.cycle = 0], {})
            EXCEPT !.vecbanks = 255, !.vecbanks_count = 8,
                   !.utidx = -1, !.vlmax = 32, !.vl = 0,
                   !.nxfpr_bank = 256, !.nxpr_use = 32, !.nfpr_use = 32],
   m |-> m]

reset(p, m) ==
  Let(set_sr([p EXCEPT !.run = FALSE], m, SR_S \cup SR_SX \cup SR_ET \cup SR_IM), LAMBDA r :
      [p |-> [set_fsr([r.p EXCEPT !.evec = BOOT_EVEC,
                                  !.XPR = [x \in 0 .. (NXPR - 1) |-> 0],
                                  !.FPR = [x \in 0 .. (NFPR - 1) |-> 0],
                                  !.pc = 0, !.epc = 0, !.badvaddr = 0, !.cause = 0,
                                  !.pcr_k0 = 0, !.pcr_k1 = 0,
                                  !.count = 0, !.compare = 0, !.cycle = 0], {})
                EXCEPT !.vecbanks = 255, !.vecbanks_count = 8,
                       !.utidx = -1, !.vlmax = 32, !.vl = 0,
                       !.nxfpr_bank = 256, !.nxpr_use = 32, !.nfpr_use = 32],
       m |-> r.m])

(***************************************************************************)
(* The object before its constructor body runs: every field holds what the *)
(* allocation left there.  Only interrupts_pending is never assigned by    *)
(* the constructors, so only its leftover value g is kept apart.  The      *)
(* field uts is the number of entries of uts[] that hold a lane (entries   *)
(* 0 .. uts-1; the constructors fill all of them or none).                 *)
(***************************************************************************)
Raw(g) ==
  [run |-> FALSE, sr |-> {}, xprlen |-> 32, evec |-> 0,
   XPR |-> [x \in 0 .. (NXPR - 1) |-> 0], FPR |-> [x \in 0 .. (NFPR - 1) |-> 0],
   pc |-> 0, epc |-> 0, badvaddr |-> 0, cause |-> 0, pcr_k0 |-> 0, pcr_k1 |-> 0,
   count |-> 0, compare |-> 0, cycle |-> 0, fsr |-> {},
   vecbanks |-> 0, vecbanks_count |-> 0, utidx |-> 0, vlmax |-> 0, vl |-> 0,
   nxfpr_bank |-> 0, nxpr_use |-> 0, nfpr_use |-> 0,
   interrupts_pending |-> g, uts |-> 0]

RawMmu == [vm_enabled |-> FALSE, supervisor |-> FALSE, badvaddr |-> 0, tlb |-> FALSE]

(***************************************************************************)
(* processor_t::processor_t(sim, mmu, id): the main core.  Each lane it    *)
(* creates runs the lane constructor on the same mmu.                      *)
(***************************************************************************)
\* the lane constructor without its set_sr(sr | SR_EF | SR_EV)
lane_ctor_reset_only(g, m, idx) ==
  Let(reset(Raw(g), m), LAMBDA r :
      [p |-> [r.p EXCEPT !.utidx = idx, !.uts = 0], m |-> r.m])

lane_ctor(g, m, idx) ==
  Let(reset(Raw(g), m), LAMBDA r :
  Let(set_sr(r.p, r.m, r.p.sr \cup SR_EF \cup SR_EV), LAMBDA s :
      [p |-> [s.p EXCEPT !.utidx = idx, !.uts = 0], m |-> s.m]))

\* the mmu after the lanes lo .. hi-1 were constructed on it, in this order
\* (the range is halved so that the recursion stays shallow)
RECURSIVE make_lanes(_, _, _)
make_lanes(m, lo, hi) ==
  IF hi <= lo THEN m
  ELSE IF hi = lo + 1 THEN lane_ctor({}, m, lo).m
  ELSE Let(make_lanes(m, lo, (lo + hi) \div 2), LAMBDA m1 :
           make_lanes(m1, (lo + hi) \div 2, hi))

core_ctor(g, m) ==
  Let(reset([Raw(g) EXCEPT !.utidx = 0], m), LAMBDA r :
      [p |-> [r.p EXCEPT !.uts = MAX_UTS], m |-> make_lanes(r.m, 0, MAX_UTS)])

Construct(s, g) == IF s = -1 THEN core_ctor(g, RawMmu) ELSE lane_ctor(g, RawMmu, s)

\* of the MAX_UTS lanes a main core creates, those that are followed
TrackedLanes == 0 .. (Min(MaxLanes, MAX_UTS) - 1)

\* the followed lanes as the constructor of processor s leaves them: uts[i] of
\* a main core, none for a lane (uts[i] = NULL)
lanes_of(s) ==
  IF s = -1 THEN [i \in TrackedLanes |-> lane_ctor({}, RawMmu, i).p] ELSE <<>>

(***************************************************************************)
(* processor_t::take_interrupt: the code of the trap it throws, or NoTrap. *)
(***************************************************************************)
RECURSIVE irq_scan(_, _)
irq_scan(interrupts, i) ==
  IF 0 \in interrupts THEN trap_irq0 + i ELSE irq_scan(ShiftRight(interrupts, 1), i + 1)

\* take_interrupt without the mask: every pending line counts
take_interrupt_unmasked(p) ==
  Let(p.interrupts_pending, LAMBDA interrupts :
      IF interrupts # {} /\ p.sr \cap SR_ET # {} THEN irq_scan(interrupts, 0) ELSE NoTrap)

take_interrupt(p) ==
  Let(p.interrupts_pending \cap ShiftRight(p.sr \cap SR_IM, SR_IM_SHIFT), LAMBDA interrupts :
      IF interrupts # {} /\ p.sr \cap SR_ET # {} THEN irq_scan(interrupts, 0) ELSE NoTrap)

(***************************************************************************)
(* processor_t::take_trap                                                  *)
(***************************************************************************)
\* take_trap that leaves the previous-supervisor bit as it was
take_trap_keeps_ps(p, m, t) ==
  Let(set_sr(p, m, (p.sr \ SR_ET) \cup SR_S), LAMBDA r :
      [p |-> [r.p EXCEPT !.cause = t, !.epc = p.pc, !.pc = p.evec,
                         !.badvaddr = r.m.badvaddr],
       m |-> r.m])

\* take_trap that leaves the traps-enabled bit as it was
take_trap_keeps_et(p, m, t) ==
  Let(set_sr(p, m, ((p.sr \cup SR_S) \ SR_PS)
                    \cup (IF p.sr \cap SR_S # {} THEN SR_PS ELSE {})), LAMBDA r :
      [p |-> [r.p EXCEPT !.cause = t, !.epc = p.pc, !.pc = p.evec,
                         !.badvaddr = r.m.badvaddr],
       m |-> r.m])

\* take_trap that assigns sr itself instead of calling set_sr
take_trap_assigns_sr(p, m, t) ==
  [p |-> [p EXCEPT !.sr = (((p.sr \ SR_ET) \cup SR_S) \ SR_PS)
                          \cup (IF p.sr \cap SR_S # {} THEN SR_PS ELSE {}),
                   !.cause = t, !.epc = p.pc, !.pc = p.evec, !.badvaddr = m.badvaddr],
   m |-> m]

take_trap(p, m, t) ==
  Let(set_sr(p, m, (((p.sr \ SR_ET) \cup SR_S) \ SR_PS)
                    \cup (IF p.sr \cap SR_S # {} THEN SR_PS ELSE {})), LAMBDA r :
      [p |-> [r.p EXCEPT !.cause = t, !.epc = p.pc, !.pc = p.evec,
                         !.badvaddr = r.m.badvaddr],
       m |-> r.m])

(***************************************************************************)
(* processor_t::deliver_ipi                                                *)
(***************************************************************************)
deliver_ipi(p) ==
  [p EXCEPT !.interrupts_pending = @ \cup ShiftLeft({0}, IPI_IRQ), !.run = TRUE]

(***************************************************************************)
(* processor_t::step, one activation.  frame.pos is the position in it:    *)
(*   "idle"  no activation;                                                *)
(*   "try"   at the top of while(1) try, before take_interrupt();          *)
(*   "loop"  at a loop test of the try block, after npc = pc;              *)
(*   "acct"  past the loops (break), before cycle += i.                    *)
(* frame.k counts the execute_insn already done in the current iteration   *)
(* of the unrolled loop, whose i += 4 runs only after the fourth.          *)
(* frame.npc is the local npc, in scope inside the try block only.         *)
(* frame.executed (history) counts the instructions fetched in the call,   *)
(* frame.traps (history) the traps delivered in it.                        *)
(***************************************************************************)
Idle == [pos |-> "idle", n |-> 0, noisy |-> FALSE, i |-> 0, k |-> 0, npc |-> 0,
         executed |-> 0, traps |-> 0]

Enter(n, noisy) ==
  [pos |-> "try", n |-> n, noisy |-> noisy, i |-> 0, k |-> 0, npc |-> 0,
   executed |-> 0, traps |-> 0]

\* the unrolled loop is in, or may start, an iteration: n > 3 && i < n-3
InGroup(f) == ~f.noisy /\ (f.k > 0 \/ (f.n > 3 /\ f.i < f.n - 3))

\* some loop of the try block still has an instruction to execute
More(f) == InGroup(f) \/ f.i < f.n

\* catch(trap_t t) without its i++
catch_trap_without_count(M, t) ==
  Let(take_trap(M.p, M.m, t), LAMBDA r :
      [p |-> r.p, m |-> r.m,
       f |-> [M.f EXCEPT !.pos = "try", !.k = 0, !.npc = 0, !.traps = @ + 1]])

\* catch(trap_t t): i++; take_trap(t, noisy); then the while(1) loop goes round
catch_trap(M, t) ==
  Let(take_trap(M.p, M.m, t), LAMBDA r :
      [p |-> r.p, m |-> r.m,
       f |-> [M.f EXCEPT !.pos = "try", !.i = @ + 1, !.k = 0, !.npc = 0, !.traps = @ + 1]])

\* the top of the try block: take_interrupt(), then npc = pc
try_top(M) ==
  Let(take_interrupt(M.p), LAMBDA t :
      IF t # NoTrap THEN catch_trap(M, t)
                    ELSE [M EXCEPT !.f.pos = "loop", !.f.npc = M.p.pc])

(***************************************************************************)
(* What func(this, insn, npc) does to the processor besides returning the  *)
(* next pc: a write to its destination registers, to SR, to compare, or an *)
(* IPI the core sends to itself.                                           *)
(***************************************************************************)
Effects ==
  {[e |-> "ipi"]}
  \cup {[e |-> "sr", w |-> w] : w \in SrWords}
  \cup {[e |-> "compare", v |-> v] : v \in CompareVals}
  \cup {[e |-> "wreg", rd |-> NXPR - 1, frd |-> NFPR - 1]}

apply_effect(p, m, eff) ==
  CASE eff.e = "sr" -> set_sr(p, m, eff.w)
    [] eff.e = "compare" -> [p |-> [p EXCEPT !.compare = eff.v % CountModulus], m |-> m]
    [] eff.e = "wreg" -> [p |-> [p EXCEPT !.XPR[eff.rd] = 1, !.FPR[eff.frd] = 1], m |-> m]
    [] eff.e = "ipi" -> [p |-> deliver_ipi(p), m |-> m]
    [] OTHER -> [p |-> p, m |-> m]

(***************************************************************************)
(* The outcomes of one execute_insn: load_insn or func throws a trap_t     *)
(* (the mmu then holds the fault address), func throws vt_command_stop or  *)
(* halt_t, or func returns the next pc.                                    *)
(***************************************************************************)
Outcomes ==
  {[kind |-> "commit", npc |-> a, eff |-> eff] : a \in Targets, eff \in Effects}
  \cup {[kind |-> "trap", t |-> t, addr |-> a] : t \in ExcCodes, a \in FaultAddrs}
  \cup {[kind |-> "stop"], [kind |-> "halt"]}

\* advance whose unrolled loop adds 3 to i after its four instructions
advance_adds_three(f) ==
  IF InGroup(f)
    THEN IF f.k = 3 THEN [f EXCEPT !.k = 0, !.i = @ + 3, !.executed = @ + 1]
                    ELSE [f EXCEPT !.k = @ + 1, !.executed = @ + 1]
    ELSE [f EXCEPT !.i = @ + 1, !.executed = @ + 1]

\* the loop counters after one execute_insn that returned
advance(f) ==
  IF InGroup(f)
    THEN IF f.k = 3 THEN [f EXCEPT !.k = 0, !.i = @ + 4, !.executed = @ + 1]
                    ELSE [f EXCEPT !.k = @ + 1, !.executed = @ + 1]
    ELSE [f EXCEPT !.i = @ + 1, !.executed = @ + 1]

\* execute_insn whose catch(vt_command_t) returns at once, without accounting
execute_insn_stop_returns(M, o) ==
  CASE o.kind = "commit" ->
         Let(apply_effect([M.p EXCEPT !.pc = o.npc], [M.m EXCEPT !.tlb = TRUE], o.eff),
             LAMBDA r : [p |-> r.p, m |-> r.m, f |-> [advance(M.f) EXCEPT !.npc = o.npc]])
    [] o.kind = "trap" ->
         Let([M EXCEPT !.f.executed = @ + 1, !.m.badvaddr = o.addr],
             LAMBDA F : catch_trap(F, o.t))
    [] o.kind = "stop" ->
         [M EXCEPT !.f = Idle]
    [] OTHER ->
         Let(reset(M.p, M.m), LAMBDA r : [p |-> r.p, m |-> r.m, f |-> Idle])

execute_insn(M, o) ==
  CASE o.kind = "commit" ->
         Let(apply_effect([M.p EXCEPT !.pc = o.npc], [M.m EXCEPT !.tlb = TRUE], o.eff),
             LAMBDA r : [p |-> r.p, m |-> r.m, f |-> [advance(M.f) EXCEPT !.npc = o.npc]])
    [] o.kind = "trap" ->
         Let([M EXCEPT !.f.executed = @ + 1, !.m.badvaddr = o.addr],
             LAMBDA F : catch_trap(F, o.t))
    [] o.kind = "stop" ->
         [M EXCEPT !.f.executed = @ + 1, !.f.pos = "acct", !.f.i = @ + 1, !.f.k = 0]
    [] OTHER ->
         Let(reset(M.p, M.m), LAMBDA r : [p |-> r.p, m |-> r.m, f |-> Idle])

\* a level-triggered timer test: the count is at or past compare
timer_at_or_past(old_count, i, compare) == old_count + i >= compare

\* the timer test of step: old_count < compare && uint64_t(old_count) + i >= compare
timer_crossed(old_count, i, compare) == old_count < compare /\ old_count + i >= compare

\* the bits the end of step ors into interrupts_pending: 1 << TIMER_IRQ, or none
timer_irq(p, i) ==
  IF timer_crossed(p.count, i, p.compare) THEN ShiftLeft({0}, TIMER_IRQ) ELSE {}

\* the end of step: cycle += i and the timer
account(M) ==
  [p |-> [M.p EXCEPT !.cycle = @ + M.f.i,
                     !.count = (@ + M.f.i) % CountModulus,
                     !.interrupts_pending = @ \cup timer_irq(M.p, M.f.i)],
   m |-> M.m, f |-> Idle]

Cur == [p |-> proc, m |-> mmu, f |-> frame]

Put(M) == proc' = M.p /\ mmu' = M.m /\ frame' = M.f

(***************************************************************************)
(* History kept beside the program's state.                                *)
(*   last.ev   the kind of the most recent operation or event:             *)
(*             "ctor", "ipi", "skip" (step on a processor that is not      *)
(*             running), "call", "pass" (take_interrupt returned), "irq"   *)
(*             and "exc" (a trap was delivered), "commit", "stop", "halt", *)
(*             "ret" (step ran its accounting and returned);               *)
(*   last.t    the code of the trap signal delivered, else NoTrap;         *)
(*   last.asserted  whether the accounting executed the timer's |=;        *)
(*   last.redirected  a trap was delivered and no instruction has been     *)
(*             fetched since.                                              *)
(***************************************************************************)
Event(e, t, a) ==
  [ev |-> e, t |-> t, asserted |-> a,
   redirected |-> CASE e \in {"irq", "exc"} -> TRUE
                    [] e \in {"commit", "stop", "halt"} -> FALSE
                    [] OTHER -> last.redirected]

Ev(e) == Event(e, NoTrap, FALSE)

\* boot: "reset" (fresh from reset()), "ipi" (then deliver_ipi), "step" (then
\* inside step(1, false)), "done" (that call returned), "off" (anything else)
BootAfterCall(n, noisy) == IF boot = "ipi" /\ n = 1 /\ ~noisy THEN "step" ELSE "off"

\* timer.fires counts the timer assertions since compare was last written,
\* saturating at 2; timer.wrapped tells whether count has wrapped since then
NoTimer == [fires |-> 0, wrapped |-> FALSE]

TimerAfter(M) ==
  [fires |-> IF timer_irq(M.p, M.f.i) # {}
               THEN Min(timer.fires + 1, 2) ELSE timer.fires,
   wrapped |-> timer.wrapped \/ M.p.count + M.f.i >= CountModulus]

NoTwin == [on |-> FALSE]

Init ==
  /\ build \in Builds
  /\ self \in Selves
  /\ \E g \in SUBSET IrqLines : \E c \in {Construct(self, g)} :
       proc = c.p /\ mmu = c.m /\ poweron = c
  /\ frame = Idle
  /\ last = [ev |-> "ctor", t |-> NoTrap, asserted |-> FALSE, redirected |-> FALSE]
  /\ boot = "reset"
  /\ timer = NoTimer
  /\ twin = NoTwin
  /\ peers = <<>>

\* the simulation environment calls deliver_ipi() between two step calls
DeliverIpi ==
  /\ frame.pos = "idle"
  /\ proc' = deliver_ipi(proc)
  /\ last' = Ev("ipi")
  /\ boot' = IF boot = "reset" THEN "ipi" ELSE "off"
  /\ UNCHANGED <<build, self, mmu, frame, poweron, timer, twin, peers>>

\* step(n, noisy) on a processor that is not running: if(!run) return
StepNotRunning ==
  /\ frame.pos = "idle"
  /\ ~proc.run
  /\ \E n \in Budgets, noisy \in BOOLEAN : last' = Ev("skip")
  /\ boot' = boot
  /\ UNCHANGED <<build, self, proc, mmu, frame, poweron, timer, twin, peers>>

\* step without its first statement, if(!run) return
StepCallUnguarded ==
  /\ frame.pos = "idle"
  /\ \E n \in Budgets, noisy \in BOOLEAN :
       /\ proc.cycle + n <= MaxCycle
       /\ frame' = Enter(n, noisy)
       /\ boot' = BootAfterCall(n, noisy)
  /\ last' = Ev("call")
  /\ UNCHANGED <<build, self, proc, mmu, poweron, timer, twin, peers>>

\* step(n, noisy) on a running processor, up to the top of the try block
StepCall ==
  /\ frame.pos = "idle"
  /\ proc.run
  /\ \E n \in Budgets, noisy \in BOOLEAN :
       /\ proc.cycle + n <= MaxCycle
       /\ frame' = Enter(n, noisy)
       /\ boot' = BootAfterCall(n, noisy)
  /\ last' = Ev("call")
  /\ UNCHANGED <<build, self, proc, mmu, poweron, timer, twin, peers>>

\* take_interrupt() at the top of the try block, and the catch when it throws
TakeInterrupt ==
  /\ frame.pos = "try"
  /\ \E M \in {try_top(Cur)}, t \in {take_interrupt(proc)} :
       /\ Put(M)
       /\ last' = IF t # NoTrap THEN Event("irq", t, FALSE) ELSE Ev("pass")
  /\ UNCHANGED <<build, self, boot, poweron, timer, twin, peers>>

\* one execute_insn of a loop of the try block, and the catch when it throws
ExecuteInsn ==
  /\ frame.pos = "loop"
  /\ More(frame)
  /\ \E o \in Outcomes : \E M \in {execute_insn(Cur, o)} :
       /\ Put(M)
       /\ last' = CASE o.kind = "trap" -> Event("exc", o.t, FALSE)
                    [] o.kind = "commit" -> Ev("commit")
                    [] o.kind = "stop" -> Ev("stop")
                    [] OTHER -> Ev("halt")
       /\ boot' = IF o.kind = "halt" THEN "reset" ELSE boot
       /\ timer' = IF o.kind = "halt" \/ (o.kind = "commit" /\ o.eff.e = "compare")
                     THEN NoTimer ELSE timer
  /\ UNCHANGED <<build, self, poweron, twin, peers>>

\* the loops are over (or a microthread stopped): the accounting, and return
StepReturn ==
  /\ frame.pos = "acct" \/ (frame.pos = "loop" /\ ~More(frame))
  /\ \E M \in {account(Cur)} : Put(M)
  /\ last' = Event("ret", NoTrap, timer_irq(proc, frame.i) # {})
  /\ boot' = IF boot = "step" THEN "done" ELSE boot
  /\ timer' = TimerAfter(Cur)
  /\ UNCHANGED <<build, self, poweron, twin, peers>>

Next == DeliverIpi \/ StepNotRunning \/ StepCall \/ TakeInterrupt \/ ExecuteInsn \/ StepReturn

Spec == Init /\ [][Next]_vars

(***************************************************************************)
(* SpecLive: the step calls of one processor whose handlers write only     *)
(* registers, with a call that has been entered going on: every fetch and  *)
(* every handler returns or throws, and step itself does not block.        *)
(***************************************************************************)
LiveOutcomes ==
  {o \in Outcomes : o.kind # "commit" \/ o.eff.e = "wreg"}

LiveExecute ==
  /\ frame.pos = "loop"
  /\ More(frame)
  /\ \E o \in LiveOutcomes : \E M \in {execute_insn(Cur, o)} :
       /\ Put(M)
       /\ last' = CASE o.kind = "trap" -> Event("exc", o.t, FALSE)
                    [] o.kind = "commit" -> Ev("commit")
                    [] o.kind = "stop" -> Ev("stop")
                    [] OTHER -> Ev("halt")
       /\ boot' = IF o.kind = "halt" THEN "reset" ELSE boot
       /\ timer' = IF o.kind = "halt" THEN NoTimer ELSE timer
  /\ UNCHANGED <<build, self, poweron, twin, peers>>

NextLive == DeliverIpi \/ StepCall \/ TakeInterrupt \/ LiveExecute \/ StepReturn

SpecLive ==
  /\ Init /\ [][NextLive]_vars
  /\ WF_vars(TakeInterrupt) /\ WF_vars(LiveExecute) /\ WF_vars(StepReturn)

(***************************************************************************)
(* SpecPair: the processor driven by step(n, true) and, in twin, the same  *)
(* processor driven by step(n, false), both from the same state and with   *)
(* the same outcome of every instruction.  run_to_fetch takes an           *)
(* activation through the steps that involve no instruction: the top of    *)
(* the try block, and the accounting once the loops are over.  The pair    *)
(* is driven on only while the two processors agree.                       *)
(***************************************************************************)
RECURSIVE run_to_fetch(_)
run_to_fetch(M0) ==
  Let(M0, LAMBDA M :
      IF M.f.pos = "try" THEN run_to_fetch(try_top(M))
      ELSE IF M.f.pos = "acct" \/ (M.f.pos = "loop" /\ ~More(M.f)) THEN account(M)
      ELSE M)

InitPair ==
  /\ build \in Builds
  /\ self \in Selves
  /\ \E g \in SUBSET IrqLines : \E c \in {Construct(self, g)} :
       proc = c.p /\ mmu = c.m /\ poweron = c /\ twin = [p |-> c.p, m |-> c.m, f |-> Idle]
  /\ frame = Idle
  /\ last = [ev |-> "ctor", t |-> NoTrap, asserted |-> FALSE, redirected |-> FALSE]
  /\ boot = "reset"
  /\ timer = NoTimer
  /\ peers = <<>>

PairIpi ==
  /\ frame.pos = "idle" /\ twin.f.pos = "idle"
  /\ twin.p = proc /\ twin.m = mmu
  /\ proc' = deliver_ipi(proc)
  /\ twin' = [twin EXCEPT !.p = deliver_ipi(@)]
  /\ UNCHANGED <<build, self, mmu, frame, last, boot, poweron, timer, peers>>

PairCall ==
  /\ frame.pos = "idle" /\ twin.f.pos = "idle"
  /\ twin.p = proc /\ twin.m = mmu
  /\ proc.run
  /\ \E n \in Budgets :
       /\ proc.cycle + n <= MaxCycle
       /\ \E M \in {run_to_fetch([Cur EXCEPT !.f = Enter(n, TRUE)])} : Put(M)
       /\ twin' = run_to_fetch([twin EXCEPT !.f = Enter(n, FALSE)])
  /\ UNCHANGED <<build, self, last, boot, poweron, timer, peers>>

PairExecute ==
  /\ frame.pos = "loop" /\ twin.f.pos = "loop"
  /\ twin.p = proc /\ twin.m = mmu
  /\ \E o \in Outcomes :
       /\ \E M \in {run_to_fetch(execute_insn(Cur, o))} : Put(M)
       /\ twin' = run_to_fetch(execute_insn(twin, o))
  /\ UNCHANGED <<build, self, last, boot, poweron, timer, peers>>

NextPair == PairIpi \/ PairCall \/ PairExecute

SpecPair == InitPair /\ [][NextPair]_vars

(***************************************************************************)
(* SpecVec: the vector configuration of one processor, with the followed   *)
(* lanes its constructor created.  Between reset, vcfg and setvl an        *)
(* instruction handler may write the register demand (nxpr_use, nfpr_use)  *)
(* and the bank mask (vecbanks, with vecbanks_count its population count). *)
(***************************************************************************)
InitVec ==
  /\ build \in Builds
  /\ self \in Selves
  /\ \E g \in SUBSET IrqLines : \E c \in {Construct(self, g)} :
       proc = c.p /\ mmu = c.m /\ poweron = c
  /\ frame = Idle
  /\ last = [ev |-> "ctor", t |-> NoTrap, asserted |-> FALSE, redirected |-> FALSE]
  /\ boot = "reset"
  /\ timer = NoTimer
  /\ twin = NoTwin
  /\ peers = lanes_of(self)

RECURSIVE popcount(_)
popcount(n) == IF n = 0 THEN 0 ELSE (n % 2) + popcount(n \div 2)

VecReset ==
  /\ \E r \in {reset(proc, mmu)} : proc' = r.p /\ mmu' = r.m
  /\ last' = Ev("reset")
  /\ UNCHANGED <<build, self, frame, boot, poweron, timer, twin, peers>>

VecDemand ==
  /\ \E x \in RegDemands, f \in RegDemands :
       proc' = [proc EXCEPT !.nxpr_use = x, !.nfpr_use = f]
  /\ last' = Ev("demand")
  /\ UNCHANGED <<build, self, mmu, frame, boot, poweron, timer, twin, peers>>

VecBanks ==
  /\ \E b \in BankMasks :
       proc' = [proc EXCEPT !.vecbanks = b, !.vecbanks_count = popcount(b)]
  /\ last' = Ev("banks")
  /\ UNCHANGED <<build, self, mmu, frame, boot, poweron, timer, twin, peers>>

VecCfg ==
  /\ proc' = vcfg(proc)
  /\ last' = Ev("vcfg")
  /\ UNCHANGED <<build, self, mmu, frame, boot, poweron, timer, twin, peers>>

VecSetvl ==
  /\ \E vlapp \in VlRequests : proc' = setvl(proc, vlapp)
  /\ last' = Ev("setvl")
  /\ UNCHANGED <<build, self, mmu, frame, boot, poweron, timer, twin, peers>>

NextVec == VecReset \/ VecDemand \/ VecBanks \/ VecCfg \/ VecSetvl

SpecVec == InitVec /\ [][NextVec]_vars

(***************************************************************************)
(* SpecLanes: a main core and the followed lanes it created, all on one    *)
(* mmu.  The simulation environment drives one processor at a time with    *)
(* deliver_ipi() and step(1, false): proc is the processor it drives, self *)
(* the index of that processor, peers the others.  Between two operations  *)
(* it may turn to another processor.                                       *)
(***************************************************************************)
RECURSIVE cycles_of(_, _)
cycles_of(ps, ids) ==
  IF ids = {} THEN 0
  ELSE Let(CHOOSE x \in ids : TRUE, LAMBDA x : ps[x].cycle + cycles_of(ps, ids \ {x}))

InitLanes ==
  /\ build \in Builds
  /\ self = -1
  /\ \E g \in SUBSET IrqLines : \E c \in {Construct(self, g)} :
       proc = c.p /\ mmu = c.m /\ poweron = c
  /\ frame = Idle
  /\ last = [ev |-> "ctor", t |-> NoTrap, asserted |-> FALSE, redirected |-> FALSE]
  /\ boot = "reset"
  /\ timer = NoTimer
  /\ twin = NoTwin
  /\ peers = lanes_of(self)

LanesSwitch ==
  /\ frame.pos = "idle"
  /\ \E s \in DOMAIN peers :
       /\ self' = s
       /\ proc' = peers[s]
       /\ peers' = [x \in (DOMAIN peers \ {s}) \cup {self} |->
                      IF x = self THEN proc ELSE peers[x]]
  /\ last' = [ev |-> "switch", t |-> NoTrap, asserted |-> FALSE, redirected |-> FALSE]
  /\ UNCHANGED <<build, mmu, frame, boot, poweron, timer, twin>>

LanesCall ==
  /\ frame.pos = "idle"
  /\ proc.run
  /\ proc.cycle + cycles_of(peers, DOMAIN peers) + 1 <= MaxLanesCycle
  /\ frame' = Enter(1, FALSE)
  /\ last' = Ev("call")
  /\ UNCHANGED <<build, self, proc, mmu, boot, poweron, timer, twin, peers>>

\* the outcomes of execute_insn that bear on the mmu: a handler that writes
\* SR, a trap, a halt
LanesOutcomes ==
  {o \in Outcomes : o.kind \in {"trap", "halt"} \/ (o.kind = "commit" /\ o.eff.e = "sr")}

LanesIpi ==
  /\ frame.pos = "idle"
  /\ ~proc.run
  /\ proc' = deliver_ipi(proc)
  /\ last' = Ev("ipi")
  /\ UNCHANGED <<build, self, mmu, frame, boot, poweron, timer, twin, peers>>

LanesTakeInterrupt ==
  /\ frame.pos = "try"
  /\ \E M \in {try_top(Cur)}, t \in {take_interrupt(proc)} :
       /\ Put(M)
       /\ last' = IF t # NoTrap THEN Event("irq", t, FALSE) ELSE Ev("pass")
  /\ UNCHANGED <<build, self, boot, poweron, timer, twin, peers>>

LanesExecute ==
  /\ frame.pos = "loop"
  /\ More(frame)
  /\ \E o \in LanesOutcomes : \E M \in {execute_insn(Cur, o)} :
       /\ Put(M)
       /\ last' = CASE o.kind = "trap" -> Event("exc", o.t, FALSE)
                    [] o.kind = "commit" -> Ev("commit")
                    [] OTHER -> Ev("halt")
  /\ UNCHANGED <<build, self, boot, poweron, timer, twin, peers>>

LanesReturn ==
  /\ frame.pos = "acct" \/ (frame.pos = "loop" /\ ~More(frame))
  /\ \E M \in {account(Cur)} : Put(M)
  /\ last' = Event("ret", NoTrap, timer_irq(proc, frame.i) # {})
  /\ UNCHANGED <<build, self, boot, poweron, timer, twin, peers>>

NextLanes ==
  \/ LanesSwitch \/ LanesIpi \/ LanesCall
  \/ LanesTakeInterrupt \/ LanesExecute \/ LanesReturn

SpecLanes == InitLanes /\ [][NextLanes]_vars

(***************************************************************************)
(* The claims.                                                             *)
(***************************************************************************)
Has(w, bits) == w \cap bits # {}

\* C1: every trap delivery (interrupt or exception, in any mode, with traps
\* enabled or not) leaves S set, PS equal to the S of before, ET clear, cause
\* the signal's code, epc the pc of before, badvaddr the mmu's fault address and
\* pc equal to evec; step keeps running, the delivery itself executes no
\* instruction, and until the next fetch pc stays at evec.
TrapDeliveryContract ==
  /\ [][last'.ev \in {"irq", "exc"} =>
          /\ Has(proc'.sr, SR_S)
          /\ Has(proc'.sr, SR_PS) <=> Has(proc.sr, SR_S)
          /\ ~Has(proc'.sr, SR_ET)
          /\ proc'.cause = last'.t
          /\ proc'.epc = proc.pc
          /\ proc'.badvaddr = mmu'.badvaddr
          /\ proc'.pc = proc.evec
          /\ frame'.pos = "try"
          /\ frame'.executed = frame.executed + (IF last'.ev = "exc" THEN 1 ELSE 0)]_vars
  /\ [](last.redirected => proc.pc = proc.evec)

\* an exception raised by the instruction at pc 4 in user mode was delivered
TrapFromUserMode ==
  last.ev = "exc" /\ ~Has(proc.sr, SR_PS) /\ proc.epc = 4

\* the lines that are pending and unmasked
Deliverable(p) == {l \in 0 .. 7 : l \in p.interrupts_pending /\ (SR_IM_SHIFT + l) \in p.sr}

\* C2: the interrupt check raises a trap exactly when ET is set and some line is
\* both pending and unmasked, and its code is trap_irq0 plus the lowest such
\* line; otherwise it raises nothing and changes nothing.
InterruptCheckContract ==
  [][frame.pos = "try" =>
       /\ last'.ev = "irq" <=> (Has(proc.sr, SR_ET) /\ Deliverable(proc) # {})
       /\ last'.ev = "irq" =>
            /\ \A l \in Deliverable(proc) : last'.t <= trap_irq0 + l
            /\ last'.t - trap_irq0 \in Deliverable(proc)
            /\ proc'.cause = last'.t
       /\ last'.ev # "irq" => last'.ev = "pass" /\ proc' = proc /\ mmu' = mmu]_vars

\* the timer interrupt was taken while the lower-numbered IPI line was pending
\* but masked
MaskedLowerLineSkipped ==
  /\ last.ev = "irq"
  /\ last.t = trap_irq0 + TIMER_IRQ
  /\ IPI_IRQ \in proc.interrupts_pending

\* C3: in a step(n, noisy) call the instructions fetched (committed or raising
\* a signal) are at most n.
BudgetRespected == frame.executed <= frame.n

\* C4: step(n, true) and step(n, false), from the same state and with the same
\* outcome of every instruction, fetch the same instructions and end in the
\* same state.
TracingEquivalent == twin.p = proc /\ twin.m = mmu /\ twin.f.pos = frame.pos

\* C5: reset, deliver_ipi(), step(1, false): no instruction is executed, and at
\* the return cause is the IPI cause code, epc the pc of the reset state and pc
\* the reset trap vector.
BootScenario ==
  /\ boot = "step" => frame.executed = 0
  /\ boot = "done" =>
       /\ proc.cause = trap_irq0 + IPI_IRQ
       /\ proc.epc = poweron.p.pc
       /\ proc.pc = poweron.p.evec

\* C6: after a halt signal step has returned, run is false and every field of
\* the processor equals its value at power-on.
HaltRestoresPowerOn ==
  last.ev = "halt" => frame.pos = "idle" /\ ~proc.run /\ proc = poweron.p

\* C7: deliver_ipi sets the IPI line and run; nothing else turns run from false
\* to true; a step call on a processor that is not running changes nothing, and
\* no activation of step exists while run is false.
DormantUntilIpi ==
  /\ [][/\ last'.ev = "ipi" => IPI_IRQ \in proc'.interrupts_pending /\ proc'.run
        /\ ~proc.run /\ proc'.run => last'.ev = "ipi"
        /\ last'.ev \in {"skip", "call"} /\ ~proc.run =>
             proc' = proc /\ mmu' = mmu /\ frame' = frame]_vars
  /\ [](~proc.run => frame.pos = "idle")

\* a step call was skipped on a processor that was woken and halted again
SkippedAfterHalt ==
  last.ev = "skip" /\ ~proc.run /\ IPI_IRQ \in proc.interrupts_pending

\* C8 as stated: after compare is written the timer line is asserted at most
\* once, however far later step calls advance count.
TimerFiresOnce == timer.fires <= 1

\* C8 amended: a returning step asserts the timer line exactly when count is
\* below compare before and at or above it after the addition; once asserted it
\* is not asserted again unless count wraps around or compare is written.
TimerEdgeUntilWrap ==
  /\ [][last'.ev = "ret" =>
          /\ last'.asserted <=>
               (proc.count < proc.compare /\ proc.count + frame.i >= proc.compare)
          /\ last'.asserted => TIMER_IRQ \in proc'.interrupts_pending
          /\ ~last'.asserted => proc'.interrupts_pending = proc.interrupts_pending]_vars
  /\ [](~timer.wrapped => timer.fires <= 1)

\* after the crossing a later step moved count further past compare and
\* asserted nothing
AdvancedPastCompare ==
  /\ timer.fires = 1 /\ ~timer.wrapped
  /\ last.ev = "ret" /\ ~last.asserted
  /\ proc.count > proc.compare /\ proc.compare > 0

\* C9: xprlen is 64 exactly when S and SX are set or S is clear and UX is set,
\* in every reachable state.
XprlenMatchesSr ==
  proc.xprlen = IF \/ (Has(proc.sr, SR_S) /\ Has(proc.sr, SR_SX))
                   \/ (~Has(proc.sr, SR_S) /\ Has(proc.sr, SR_UX))
                  THEN 64 ELSE 32

\* a trap taken in 64-bit user mode left the processor in 32-bit supervisor mode
TrapNarrowedXprlen ==
  last.ev \in {"irq", "exc"} /\ Has(proc.sr, SR_UX) /\ proc.xprlen = 32

\* C10: the stored SR has no reserved-zero bit and no bit of an extension the
\* build lacks, whatever was written.
SrUnsupportedBitsClear ==
  /\ ~Has(proc.sr, SR_ZERO)
  /\ ~build.rv64 => ~Has(proc.sr, SR_SX \cup SR_UX)
  /\ ~build.fpu => ~Has(proc.sr, SR_EF)
  /\ ~build.rvc => ~Has(proc.sr, SR_EC)
  /\ ~build.vec => ~Has(proc.sr, SR_EV)

\* the all-ones word was written to SR in a build without the extensions
AllOnesWrittenToBareBuild ==
  ~build.vec /\ ~build.rv64 /\ last.ev = "commit" /\ Has(proc.sr, SR_VM) /\ Has(proc.sr, SR_ET)

\* C11: in every state reached by reset, vcfg, setvl and writes of the register
\* demand and of the banks between them, vlmax is at most MAX_UTS and vl is at
\* most vlmax.
VectorLengthsBounded == proc.vlmax <= MAX_UTS /\ proc.vl <= proc.vlmax

\* the vlmax that vcfg computes for the banks of p and the total demand d
vlmax_for(p, d) == vcfg([p EXCEPT !.nxpr_use = d, !.nfpr_use = 0]).vlmax

\* C15: vcfg sets vlmax to nxfpr_bank * vecbanks_count when the demand is below 2
\* and to (nxfpr_bank div (demand - 1)) * vecbanks_count otherwise, clamped to
\* MAX_UTS; for the same banks a larger demand never gives a larger vlmax.
VlmaxMonotone ==
  [][last'.ev = "vcfg" =>
       \E d \in {proc.nxpr_use + proc.nfpr_use} :
         /\ proc'.vlmax = Min(IF d < 2 THEN proc.nxfpr_bank * proc.vecbanks_count
                                       ELSE (proc.nxfpr_bank \div (d - 1)) * proc.vecbanks_count,
                              MAX_UTS)
         /\ proc'.vlmax <= MAX_UTS
         /\ \A e \in 0 .. 64 :
              /\ e >= d => vlmax_for(proc, e) <= proc'.vlmax
              /\ e <= d => vlmax_for(proc, e) >= proc'.vlmax]_vars

\* vcfg ran with a demand of 2 on 15 banks and the clamp did not apply
VcfgBelowCeiling ==
  /\ last.ev = "vcfg"
  /\ proc.nxpr_use + proc.nfpr_use = 2
  /\ proc.vecbanks_count = 4
  /\ proc.vlmax = 1024

\* C12: a step(n, noisy) call on a running processor in which no trap is
\* delivered (no interrupt at its start, no instruction raising a signal) and
\* whose loops run to their end fetches exactly n instructions, each at the pc
\* the previous handler returned, and adds exactly n to cycle; the stepper's
\* own steps (the interrupt check that passes, the accounting) leave cause,
\* epc, sr and pc alone.
QuietCallCommitsBudget ==
  /\ [][/\ last'.ev = "ret" /\ frame.pos = "loop" /\ frame.traps = 0 =>
             /\ frame.executed = frame.n
             /\ frame.i = frame.n
             /\ proc'.cycle = proc.cycle + frame.n
        /\ last'.ev \in {"pass", "ret"} =>
             /\ proc'.cause = proc.cause /\ proc'.epc = proc.epc
             /\ proc'.sr = proc.sr /\ proc'.pc = proc.pc
        /\ last'.ev = "commit" =>
             /\ frame'.executed = frame.executed + 1
             /\ proc'.pc = frame'.npc
             /\ proc'.cause = proc.cause /\ proc'.epc = proc.epc]_vars
  /\ [](frame.pos = "loop" => frame.npc = proc.pc)

\* an untraced call that went through the unrolled loop is about to return
\* with no trap delivered
QuietUnrolledCallDone ==
  /\ frame.pos = "loop" /\ ~More(frame)
  /\ ~frame.noisy /\ frame.n > 3 /\ frame.traps = 0 /\ frame.executed = frame.n

\* C13 as stated: right after reset (at construction or at a halt) pc and evec
\* both equal the boot address, ET and S are set, VM is clear, and the mmu was
\* told supervisor and no virtual memory.
BootAddressContract ==
  last.ev \in {"ctor", "halt"} =>
    /\ proc.evec = BOOT_EVEC /\ proc.pc = proc.evec
    /\ Has(proc.sr, SR_ET) /\ Has(proc.sr, SR_S) /\ ~Has(proc.sr, SR_VM)
    /\ mmu.supervisor /\ ~mmu.vm_enabled

\* C13 amended: right after reset evec is the boot address and pc is 0, ET and
\* S are set, VM is clear, the mmu was told supervisor and no virtual memory,
\* and the processor does not run; pc is at the boot address once the step call
\* that follows deliver_ipi() has delivered the interrupt.
ResetContract ==
  /\ last.ev \in {"ctor", "halt"} =>
       /\ proc.evec = BOOT_EVEC /\ proc.pc = 0 /\ ~proc.run
       /\ Has(proc.sr, SR_ET) /\ Has(proc.sr, SR_S) /\ ~Has(proc.sr, SR_VM)
       /\ mmu.supervisor /\ ~mmu.vm_enabled
  /\ boot = "done" => proc.pc = BOOT_EVEC /\ ~Has(proc.sr, SR_ET)

\* a processor that had been woken, and whose pc had moved, was reset by a halt
ResetByHalt ==
  last.ev = "halt" /\ IPI_IRQ \in proc.interrupts_pending /\ proc.pc = 0

\* C17: whenever a processor fetches an instruction, the supervisor and
\* vm_enabled flags of the shared mmu equal the S and VM bits of its own SR.
MmuAgreesAtFetch ==
  frame.pos = "loop" /\ More(frame) =>
    /\ mmu.supervisor = Has(proc.sr, SR_S)
    /\ mmu.vm_enabled = Has(proc.sr, SR_VM)

\* C14: a constructed main core has utidx -1 and owns MAX_UTS lanes; lane i has
\* utidx i, so at least 0 and different for every lane; a lane owns no lanes;
\* the SR of a lane holds the bits reset gives and also EF and EV, each when the
\* build supports it.  This stays so while only the vector configuration of
\* the main core is operated.
LanesAsConstructed ==
  self = -1 =>
    /\ proc.utidx = -1
    /\ proc.uts = MAX_UTS
    /\ DOMAIN peers = TrackedLanes
    /\ \A i \in DOMAIN peers :
         /\ i < proc.uts
         /\ peers[i].utidx = i /\ peers[i].utidx >= 0
         /\ \A j \in DOMAIN peers : j # i => peers[j].utidx # peers[i].utidx
         /\ peers[i].uts = 0
         /\ build.fpu <=> Has(peers[i].sr, SR_EF)
         /\ build.vec <=> Has(peers[i].sr, SR_EV)
         /\ peers[i].sr \ (SR_EF \cup SR_EV) = poweron.p.sr

\* a main core was constructed in a build with the vector extension, and its
\* last followed lane has the vector bit that the main core does not have
LaneHasVectorBit ==
  /\ self = -1 /\ last.ev = "ctor" /\ build.vec
  /\ (MaxLanes - 1) \in DOMAIN peers
  /\ Has(peers[MaxLanes - 1].sr, SR_EV) /\ ~Has(proc.sr, SR_EV)

\* C16: a step call that returns through its accounting adds to cycle and to
\* count the number of instructions fetched in the call, those committed and
\* the one that raised a trap or the microthread stop.
AccountingMatchesExecuted ==
  [][last'.ev = "ret" =>
       /\ proc'.cycle = proc.cycle + frame.executed
       /\ proc'.count = (proc.count + frame.executed) % CountModulus]_vars

\* C18: in a step call an interrupt is delivered only by the interrupt check
\* that opens the call, before any instruction or trap of the call, hence at
\* most once; when the check runs again after a trap, ET is clear, so it
\* raises nothing even with a line pending and unmasked.
InterruptOnlyAtCallStart ==
  /\ [][last'.ev = "irq" =>
          frame.i = 0 /\ frame.executed = 0 /\ frame.traps = 0]_vars
  /\ [][frame.pos = "try" /\ frame.traps > 0 =>
          last'.ev = "pass" /\ proc' = proc]_vars
  /\ [](frame.pos = "try" /\ frame.traps > 0 => ~Has(proc.sr, SR_ET))

\* the interrupt check is about to run again after an instruction of the call
\* trapped, with a line pending and unmasked
RecheckWithLinePending ==
  /\ frame.pos = "try" /\ frame.executed > 1 /\ last.ev = "exc"
  /\ Deliverable(proc) # {}

\* C19: the instruction that raises the microthread stop is the last one of the
\* call: the signal changes nothing in the processor or the mmu (no trap is
\* delivered, pc is not redirected, run stays true), the instruction is counted
\* in i, and the only thing the call still does is its accounting: cycle and
\* count advance by i, the timer crossing is evaluated, and step returns.
StopOnlyAccounts ==
  /\ [][last'.ev = "stop" =>
          /\ proc' = proc /\ mmu' = mmu /\ proc'.run
          /\ frame'.pos = "acct"
          /\ frame'.i = frame.i + 1
          /\ frame'.executed = frame.executed + 1]_vars
  /\ [][frame.pos = "acct" =>
          /\ last'.ev = "ret" /\ frame' = Idle /\ proc'.run
          /\ frame.i >= 1
          /\ proc'.cycle = proc.cycle + frame.i
          /\ proc'.count = (proc.count + frame.i) % CountModulus
          /\ last'.asserted <=>
               (proc.count < proc.compare /\ proc.count + frame.i >= proc.compare)
          /\ proc'.interrupts_pending =
               proc.interrupts_pending \cup (IF last'.asserted THEN {TIMER_IRQ} ELSE {})
          /\ proc'.sr = proc.sr /\ proc'.cause = proc.cause /\ proc'.epc = proc.epc
          /\ proc'.badvaddr = proc.badvaddr /\ proc'.evec = proc.evec
          /\ proc'.pc = proc.pc]_vars

\* a microthread stop ended a call that had committed instructions, at a pc
\* other than evec and with count still below compare
StopBeforeCompare ==
  /\ last.ev = "stop" /\ frame.pos = "acct" /\ frame.executed > 1
  /\ proc.pc # proc.evec
  /\ proc.count < proc.compare /\ proc.count + frame.i >= proc.compare

\* C20: every step call that is entered returns, whatever its instructions
\* raise; each trap delivered in the call advances i, so a call delivers at
\* most max(n, 1) traps.
StepTerminates ==
  /\ (frame.pos # "idle") ~> (frame.pos = "idle")
  /\ [](frame.traps <= (IF frame.n > 1 THEN frame.n ELSE 1))
  /\ [][last'.ev \in {"irq", "exc"} =>
          frame'.traps = frame.traps + 1 /\ frame'.i = frame.i + 1]_vars

\* every instruction of a call with the largest budget trapped, the first one
\* of the trap handler included
EveryInstructionTrapped ==
  /\ frame.n = MaxN /\ frame.traps = frame.n /\ frame.executed = frame.traps
  /\ last.ev = "exc"

====
